---------------------------- MODULE Spec2Model ----------------------------
(***************************************************************************)
(* Model of pulp_rpm's content-unit models (plugins/db/models.py):         *)
(*   - the version sort keys of NonMetadataPackage / Distribution          *)
(*     (pre_save_signal, complete_version, __cmp__), and                   *)
(*   - the PULP_MANIFEST reader ISOManifest.                               *)
(*                                                                         *)
(* Strings whose characters matter (versions, releases, sizes) are         *)
(* sequences of one-character strings; Ord gives a character's code.       *)
(* Python's None is the value None below.                                  *)
(***************************************************************************)
EXTENDS Integers, Sequences, FiniteSets, TLC

VARIABLES
    encIn,          \* SpecEncode: the two raw version strings handed to the codec
    encOut,         \* SpecEncode: their version_sort_index values, None before the hook ran
    encRan,         \* SpecEncode: the documents whose pre-save hook has run
    units,          \* SpecPkg: the saved package units, id -> record
    cmpResult,      \* SpecPkg: the last __cmp__ call, {[a, b, result]}, or {} when there is none
    doc,            \* SpecSave: the in-memory document
    stored,         \* SpecSave: the collection: {} or the document's persisted copy
    saveArg,        \* SpecSave: {} or the document as it was when save was last called
    manifest_file,  \* SpecManifest: the rows csv.reader yields for the open file
    repo_url,       \* SpecManifest: the repo_url argument
    pc,             \* SpecManifest: where the constructor call is
    row,            \* SpecManifest: number of rows the loop has consumed
    isos,           \* SpecManifest: self._isos of the object under construction
    manifest,       \* SpecManifest: what the caller holds: {} or {the _isos of the object}
    raised,         \* SpecManifest: the exception that left the constructor, or "none"
    iterated,       \* SpecManifest: {} or {the entries the caller's last iteration yielded}
    counted,        \* SpecManifest: {} or {what the caller's last len() returned}
    self_iso,       \* SpecValidate: the ISO validate_iso is called on
    storage,        \* SpecValidate: the file at storage_path: [exists, content]
    full_validation,    \* SpecValidate: the full_validation argument
    vpc,            \* SpecValidate: where the validate_iso call is
    destination_file,   \* SpecValidate: the handle: [opened, pos, reads]
    actual_size,    \* SpecValidate: {} or {the local actual_size}
    actual_checksum,    \* SpecValidate: {} or {the local actual_checksum}
    verror,         \* SpecValidate: {} or {the exception that left validate_iso}
    calls,          \* SpecConcurrent: thread -> its validate_iso call, as in SpecValidate
    files,          \* SpecConcurrent: the file system: path -> [exists, content]
    call_args,      \* the argument of a call of one of the helper methods
    call_result     \* {} or {what that call returned}

encVars == <<encIn, encOut, encRan>>
pkgVars == <<units, cmpResult>>
saveVars == <<doc, stored, saveArg>>
isoVars == <<manifest_file, repo_url, pc, row, isos, manifest, raised, iterated, counted>>
valVars == <<self_iso, storage, full_validation, vpc, destination_file,
             actual_size, actual_checksum, verror>>
conVars == <<calls, files>>
callVars == <<call_args, call_result>>
vars == <<encIn, encOut, encRan, units, cmpResult, doc, stored, saveArg,
          manifest_file, repo_url, pc, row, isos, manifest, raised, iterated, counted,
          self_iso, storage, full_validation, vpc, destination_file,
          actual_size, actual_checksum, verror, calls, files, call_args, call_result>>

-----------------------------------------------------------------------------
(* Bounds *)

\* most packages in one pkglist collection of an erratum
MaxPackages == 2

\* longest version string enumerated over Chars
MaxLen == 3

\* number of package units in the collection
NumUnits == 2

\* most rows in a manifest file
MaxRows == 3

\* most bytes in the file an ISO is validated against
MaxFileLen == 3

-----------------------------------------------------------------------------
(* Characters and strings *)

None == <<"None">>

Digits == {"0", "1", "2", "3", "4", "5", "6", "7", "8", "9"}

\* the characters version strings are enumerated over
Chars == {".", "0", "1", "9", "a"}

\* the terminator the codec puts after a non-digit run; below every input character
Term == "NUL"

Ord(c) ==
    CASE c = "NUL" -> 0
      [] c = "-" -> 45
      [] c = "." -> 46
      [] c = "0" -> 48
      [] c = "1" -> 49
      [] c = "2" -> 50
      [] c = "3" -> 51
      [] c = "4" -> 52
      [] c = "5" -> 53
      [] c = "6" -> 54
      [] c = "7" -> 55
      [] c = "8" -> 56
      [] c = "9" -> 57
      [] c = "a" -> 97
      [] c = "c" -> 99
      [] c = "r" -> 114
      [] c = "x" -> 120

IsDigit(c) == c \in Digits

DigitVal(c) == Ord(c) - 48

DigitChar(n) == CHOOSE c \in Digits : DigitVal(c) = n

\* all strings over Chars of length at most n
StringsUpTo(n) == UNION {[1..k -> Chars] : k \in 0..n}

\* cmp() of two ints
IntCmp(x, y) == IF x < y THEN -1 ELSE IF x > y THEN 1 ELSE 0

\* cmp() of two str: by character code, a proper prefix is smaller
RECURSIVE StrCmp(_, _)
StrCmp(s, t) ==
    IF s = <<>> /\ t = <<>> THEN 0
    ELSE IF s = <<>> THEN -1
    ELSE IF t = <<>> THEN 1
    ELSE IF Head(s) # Head(t) THEN IntCmp(Ord(Head(s)), Ord(Head(t)))
    ELSE StrCmp(Tail(s), Tail(t))

-----------------------------------------------------------------------------
(* version_utils.encode.  The codec is imported by models.py; it is        *)
(* modelled from the design's contract: split into alternating digit and   *)
(* non-digit runs, length-prefix each digit run (leading zeros dropped),   *)
(* keep non-digit runs as they are, closed by Term; empty or absent input  *)
(* gives the sentinel.                                                     *)

\* the runs of s, left to right, each a maximal run of digits or of non-digits
RECURSIVE SplitRuns(_, _)
SplitRuns(s, runs) ==
    IF s = <<>> THEN runs
    ELSE LET c == Head(s)
             n == Len(runs)
         IN IF n > 0 /\ IsDigit(Head(runs[n])) = IsDigit(c)
            THEN SplitRuns(Tail(s), [runs EXCEPT ![n] = Append(@, c)])
            ELSE SplitRuns(Tail(s), Append(runs, <<c>>))

Runs(s) == IF s = None THEN <<>> ELSE SplitRuns(s, <<>>)

RECURSIVE StripZeros(_)
StripZeros(d) == IF d # <<>> /\ Head(d) = "0" THEN StripZeros(Tail(d)) ELSE d

\* a digit run: two-digit count of significant digits, then the digits;
\* a non-digit run: its characters, then Term
EncodeRun(r) ==
    IF IsDigit(Head(r))
    THEN LET d == StripZeros(r)
         IN <<DigitChar(Len(d) \div 10), DigitChar(Len(d) % 10)>> \o d
    ELSE Append(r, Term)

RECURSIVE Concat(_)
Concat(rs) == IF rs = <<>> THEN <<>> ELSE Head(rs) \o Concat(Tail(rs))

\* what encode gives for an empty or absent field
Sentinel == <<>>

Encode(field) ==
    IF field = None \/ field = <<>> THEN Sentinel
    ELSE LET rs == Runs(field)
         IN Concat([i \in 1..Len(rs) |-> EncodeRun(rs[i])])

(* The numerically-aware comparison the sort key has to reproduce: run by  *)
(* run, digit runs as numbers, non-digit runs by character code (a digit   *)
(* run against a non-digit run by character code too); a string whose runs *)
(* are a proper prefix of the other's is smaller.                          *)

RECURSIVE NumVal(_)
NumVal(d) ==
    IF d = <<>> THEN 0
    ELSE NumVal(SubSeq(d, 1, Len(d) - 1)) * 10 + DigitVal(d[Len(d)])

RunCmp(r, q) ==
    IF IsDigit(Head(r)) /\ IsDigit(Head(q)) THEN IntCmp(NumVal(r), NumVal(q))
    ELSE IF ~IsDigit(Head(r)) /\ ~IsDigit(Head(q)) THEN StrCmp(r, q)
    ELSE IntCmp(Ord(Head(r)), Ord(Head(q)))

RECURSIVE RunsCmp(_, _)
RunsCmp(rs, qs) ==
    IF rs = <<>> /\ qs = <<>> THEN 0
    ELSE IF rs = <<>> THEN -1
    ELSE IF qs = <<>> THEN 1
    ELSE IF RunCmp(Head(rs), Head(qs)) # 0 THEN RunCmp(Head(rs), Head(qs))
    ELSE RunsCmp(Tail(rs), Tail(qs))

VersionCompare(a, b) == RunsCmp(Runs(a), Runs(b))

-----------------------------------------------------------------------------
(* The pre-save hooks.  A document is a record; a Distribution has no      *)
(* release and no release_sort_index, which stay None.  The platform's     *)
(* own hook, called through super(), does not touch the fields modelled.   *)

\* document.version_sort_index = version_utils.encode(document.version)
VersionSortIndex_raw(version) == version

VersionSortIndex(version) == Encode(version)

\* document.release_sort_index = version_utils.encode(document.release)
ReleaseSortIndex(release) == Encode(release)

NonMetadataPackage_pre_save_signal_keep(document) ==
    [document EXCEPT
        !.version_sort_index =
            IF @ = None THEN VersionSortIndex(document.version) ELSE @,
        !.release_sort_index =
            IF @ = None THEN ReleaseSortIndex(document.release) ELSE @]

NonMetadataPackage_pre_save_signal(document) ==
    [document EXCEPT
        !.version_sort_index = VersionSortIndex(document.version),
        !.release_sort_index = ReleaseSortIndex(document.release)]

Distribution_pre_save_signal(document) ==
    [document EXCEPT !.version_sort_index = VersionSortIndex(document.version)]

\* the hook the platform has connected for the document's class
PreSaveSignal(document) ==
    IF document.kind = "distribution"
    THEN Distribution_pre_save_signal(document)
    ELSE NonMetadataPackage_pre_save_signal(document)

-----------------------------------------------------------------------------
(* Parked values: what a specification gives the variables it does not use *)

ParkEnc == encIn = <<None, None>> /\ encOut = <<None, None>> /\ encRan = {}
ParkPkg == units = <<>> /\ cmpResult = {}
ParkSave == doc = None /\ stored = {} /\ saveArg = {}
ParkIso ==
    /\ manifest_file = <<>> /\ repo_url = "" /\ pc = "idle" /\ row = 0
    /\ isos = <<>> /\ manifest = {} /\ raised = "none"
    /\ iterated = {} /\ counted = {}
ParkVal ==
    /\ self_iso = None /\ storage = None /\ full_validation = FALSE /\ vpc = "idle"
    /\ destination_file = None /\ actual_size = {} /\ actual_checksum = {}
    /\ verror = {}

ParkCon == calls = <<>> /\ files = <<>>

ParkCall == call_args = None /\ call_result = {}

-----------------------------------------------------------------------------
(* SpecEncode: two documents, each with a raw version; the pre-save hook   *)
(* writes version_sort_index.                                              *)

S9 == <<"9">>
S10 == <<"1", "0">>
S1_2 == <<"1", ".", "2">>
S1_10 == <<"1", ".", "1", "0">>
S1_2_1 == <<"1", ".", "2", ".", "1">>
S1_0_0rc1 == <<"1", ".", "0", ".", "0", "r", "c", "1">>

Examples == {S9, S10, S1_2, S1_10, S1_2_1, S1_0_0rc1}

\* the raw values a version field is given
EncInputs == StringsUpTo(MaxLen) \cup Examples \cup {None}

InitEncode ==
    /\ encIn \in EncInputs \X EncInputs
    /\ encOut = <<None, None>>
    /\ encRan = {}
    /\ ParkPkg /\ ParkSave /\ ParkIso /\ ParkVal /\ ParkCon /\ ParkCall

PreSaveSignalEnc(i) ==
    /\ i \notin encRan
    /\ encOut' = [encOut EXCEPT ![i] = VersionSortIndex(encIn[i])]
    /\ encRan' = encRan \cup {i}
    /\ UNCHANGED <<encIn, pkgVars, saveVars, isoVars, valVars, conVars, callVars>>

NextEncode == \E i \in 1..2 : PreSaveSignalEnc(i)

SpecEncode == InitEncode /\ [][NextEncode]_vars

-----------------------------------------------------------------------------
(* Claims on the codec *)

EncBothRan == encRan = {1, 2}

\* C1: for version strings a and b, encode(a) is below encode(b) in plain
\* string order exactly when the numerically-aware comparison of a and b
\* says "less"; so encode("9") < encode("10"), encode("1.2") < encode("1.10")
\* and encode("1.2") < encode("1.2.1").
C1_EncodeOrder ==
    EncBothRan /\ encIn[1] # None /\ encIn[2] # None =>
        /\ (StrCmp(encOut[1], encOut[2]) = -1)
               <=> (VersionCompare(encIn[1], encIn[2]) = -1)
        /\ encIn \in {<<S9, S10>>, <<S1_2, S1_10>>, <<S1_2, S1_2_1>>}
               => StrCmp(encOut[1], encOut[2]) = -1

C1_Witness ==
    /\ EncBothRan
    /\ encIn = <<S9, S10>>
    /\ StrCmp(encOut[1], encOut[2]) = -1
    /\ StrCmp(encIn[1], encIn[2]) = 1

-----------------------------------------------------------------------------
(* NonMetadataPackage: complete_version, complete_version_serialized and   *)
(* __cmp__                                                                 *)

UnitKeyFields(kind) ==
    CASE kind = "drpm" ->
            <<"epoch", "version", "release", "filename", "checksumtype", "checksum">>
      [] kind \in {"rpm", "srpm"} ->
            <<"name", "epoch", "version", "release", "arch", "checksumtype", "checksum">>

Range(f) == {f[i] : i \in DOMAIN f}

\* cmp() of two tuples of str: the first unequal pair of elements decides,
\* and a proper prefix is smaller
RECURSIVE TupleCmp(_, _)
TupleCmp(s, t) ==
    IF s = <<>> /\ t = <<>> THEN 0
    ELSE IF s = <<>> THEN -1
    ELSE IF t = <<>> THEN 1
    ELSE IF StrCmp(Head(s), Head(t)) # 0 THEN StrCmp(Head(s), Head(t))
    ELSE TupleCmp(Tail(s), Tail(t))

\* for name in names: if name in unit_key_fields: values.append(getattr(self, name))
ValuesInKey(unit_key_fields, unit, names) ==
    LET keep == SelectSeq(names, LAMBDA n : n \in Range(unit_key_fields))
    IN [i \in 1..Len(keep) |-> unit[keep[i]]]

CompleteVersionOf(unit, names) == ValuesInKey(UnitKeyFields(unit.kind), unit, names)

complete_version_versionFirst(unit) ==
    CompleteVersionOf(unit, <<"version", "epoch", "release">>)

complete_version_noRelease(unit) ==
    CompleteVersionOf(unit, <<"epoch", "version">>)

complete_version(unit) ==
    CompleteVersionOf(unit, <<"epoch", "version", "release">>)

complete_version_serialized(unit) ==
    LET cv == complete_version(unit)
    IN [i \in 1..Len(cv) |-> Encode(cv[i])]

NonMetadataPackage_cmp_raw(self, other) ==
    TupleCmp(complete_version(self), complete_version(other))

NonMetadataPackage_cmp(self, other) ==
    TupleCmp(complete_version_serialized(self), complete_version_serialized(other))

-----------------------------------------------------------------------------
(* SpecPkg: a collection of saved RPM units and __cmp__ calls on them.     *)
(* Saving a unit drops the result of the earlier call.                     *)

PkgEpochs == {<<"0">>, <<"1">>}
PkgVersions == {S9, S10, <<"0", "1", "0">>}
PkgReleases == {<<"1">>, <<"1", "a">>}

NewPackage(epoch, version, release) ==
    [kind |-> "rpm", epoch |-> epoch, version |-> version, release |-> release,
     version_sort_index |-> None, release_sort_index |-> None]

\* every unit a save can leave in the collection
AllPkgUnits ==
    {PreSaveSignal(NewPackage(e, v, r)) :
        e \in PkgEpochs, v \in PkgVersions, r \in PkgReleases}

InitPkg ==
    /\ units = <<>>
    /\ cmpResult = {}
    /\ ParkEnc /\ ParkSave /\ ParkIso /\ ParkVal /\ ParkCon /\ ParkCall

\* unit = RPM(...); unit.save(): the hook runs, then the unit is written
SaveUnit(i, epoch, version, release) ==
    /\ units' = [k \in DOMAIN units \cup {i} |->
                    IF k = i THEN PreSaveSignal(NewPackage(epoch, version, release))
                    ELSE units[k]]
    /\ cmpResult' = {}
    /\ UNCHANGED <<encVars, saveVars, isoVars, valVars, conVars, callVars>>

\* cmp(units[i], units[j])
Compare(i, j) ==
    /\ i \in DOMAIN units
    /\ j \in DOMAIN units
    /\ cmpResult' = {[a |-> i, b |-> j,
                      result |-> NonMetadataPackage_cmp(units[i], units[j])]}
    /\ UNCHANGED <<units, encVars, saveVars, isoVars, valVars, conVars, callVars>>

NextPkg ==
    \/ \E i \in 1..NumUnits, e \in PkgEpochs, v \in PkgVersions, r \in PkgReleases :
          SaveUnit(i, e, v, r)
    \/ \E i, j \in 1..NumUnits : Compare(i, j)

SpecPkg == InitPkg /\ [][NextPkg]_vars

-----------------------------------------------------------------------------
(* Claims on __cmp__ *)

\* the first position at which two tuples of equal length differ decides
FieldwiseCmp(s, t) ==
    LET diff == {k \in 1..Len(s) : s[k] # t[k]}
    IN IF diff = {} THEN 0
       ELSE LET k == CHOOSE m \in diff : \A n \in diff : m <= n
            IN StrCmp(s[k], t[k])

EncodedTuple(u) == <<Encode(u.epoch), Encode(u.version), Encode(u.release)>>

\* the stored sort key of a unit
SortKey(u) == <<u.version_sort_index, u.release_sort_index>>

\* C2: __cmp__ is a strict total order on the complete versions of units of
\* one type: compare(a,b) is LESS exactly when compare(b,a) is GREATER, it is
\* transitive, and its result is the field-wise comparison of the encoded
\* components.
C2_CmpTotalOrder ==
    \A call \in cmpResult :
        LET a == units[call.a]
            b == units[call.b]
            res == call.result
        IN /\ (res = -1) <=> (NonMetadataPackage_cmp(b, a) = 1)
           /\ (res = 1) <=> (NonMetadataPackage_cmp(b, a) = -1)
           /\ \A c \in AllPkgUnits :
                 res = -1 /\ NonMetadataPackage_cmp(b, c) = -1
                     => NonMetadataPackage_cmp(a, c) = -1
           /\ res = FieldwiseCmp(EncodedTuple(a), EncodedTuple(b))

C2_Witness ==
    \E call \in cmpResult :
        /\ call.result = -1
        /\ units[call.a].version = S9
        /\ units[call.b].version = S10
        /\ units[call.a].epoch = units[call.b].epoch

\* C3: __cmp__ ranks by epoch, then version, then release: the first of
\* these encoded components that differs decides, and a later one is
\* consulted only when all earlier ones are equal.
C3_EpochVersionRelease ==
    \A call \in cmpResult :
        LET a == units[call.a]
            b == units[call.b]
        IN call.result =
              IF Encode(a.epoch) # Encode(b.epoch)
              THEN StrCmp(Encode(a.epoch), Encode(b.epoch))
              ELSE IF Encode(a.version) # Encode(b.version)
              THEN StrCmp(Encode(a.version), Encode(b.version))
              ELSE IF Encode(a.release) # Encode(b.release)
              THEN StrCmp(Encode(a.release), Encode(b.release))
              ELSE 0

C3_Witness ==
    \E call \in cmpResult :
        /\ call.result = -1
        /\ StrCmp(units[call.a].epoch, units[call.b].epoch) = -1
        /\ VersionCompare(units[call.a].version, units[call.b].version) = 1

\* C4: sorting units by their stored sort keys (version_sort_index,
\* release_sort_index) in plain string order gives the order that sorting
\* with __cmp__ gives: a unit sorts before another by key exactly when
\* __cmp__ says LESS.
C4_SortKeyOrderIsCmpOrder ==
    \A call \in cmpResult :
        LET a == units[call.a]
            b == units[call.b]
        IN (call.result = -1) <=> (TupleCmp(SortKey(a), SortKey(b)) = -1)

-----------------------------------------------------------------------------
(* SpecSave: one document (a package or a Distribution) whose fields are   *)
(* set in memory and which is saved: the hook runs on the document, then   *)
(* the document is written to the collection.                              *)

SaveVersions == {S9, S10}
SaveReleases == {<<"1">>, <<"0", "1">>}

\* values a caller may assign to a sort index field
IndexValues == {None, <<"x">>, Encode(S9)}

NewDistribution(version) ==
    [kind |-> "distribution", epoch |-> None, version |-> version, release |-> None,
     version_sort_index |-> None, release_sort_index |-> None]

InitSave ==
    /\ doc \in {NewPackage(<<"0">>, v, r) : v \in SaveVersions, r \in SaveReleases}
               \cup {NewDistribution(v) : v \in SaveVersions}
    /\ stored = {}
    /\ saveArg = {}
    /\ ParkEnc /\ ParkPkg /\ ParkIso /\ ParkVal /\ ParkCon /\ ParkCall

SetVersion(v) ==
    /\ doc' = [doc EXCEPT !.version = v]
    /\ UNCHANGED <<stored, saveArg, encVars, pkgVars, isoVars, valVars, conVars, callVars>>

SetRelease(r) ==
    /\ doc.kind # "distribution"
    /\ doc' = [doc EXCEPT !.release = r]
    /\ UNCHANGED <<stored, saveArg, encVars, pkgVars, isoVars, valVars, conVars, callVars>>

SetVersionSortIndex(x) ==
    /\ doc' = [doc EXCEPT !.version_sort_index = x]
    /\ UNCHANGED <<stored, saveArg, encVars, pkgVars, isoVars, valVars, conVars, callVars>>

SetReleaseSortIndex(x) ==
    /\ doc.kind # "distribution"
    /\ doc' = [doc EXCEPT !.release_sort_index = x]
    /\ UNCHANGED <<stored, saveArg, encVars, pkgVars, isoVars, valVars, conVars, callVars>>

\* document.save(): pre_save is sent, then the document is written
Save ==
    /\ saveArg' = {doc}
    /\ doc' = PreSaveSignal(doc)
    /\ stored' = {doc'}
    /\ UNCHANGED <<encVars, pkgVars, isoVars, valVars, conVars, callVars>>

NextSave ==
    \/ \E v \in SaveVersions : SetVersion(v)
    \/ \E r \in SaveReleases : SetRelease(r)
    \/ \E x \in IndexValues : SetVersionSortIndex(x)
    \/ \E x \in IndexValues : SetReleaseSortIndex(x)
    \/ Save

SpecSave == InitSave /\ [][NextSave]_vars

\* C5: after any sequence of raw-field updates and saves, every persisted
\* record has version_sort_index = encode(version) and, for packages,
\* release_sort_index = encode(release): the hook recomputes them on every
\* write, whatever was assigned to them.
C5_StoredIndexesDerived ==
    \A d \in stored :
        /\ d.version_sort_index = Encode(d.version)
        /\ d.kind # "distribution" => d.release_sort_index = Encode(d.release)

C5_Witness ==
    \E d \in stored, g \in saveArg :
        /\ d.kind = "rpm"
        /\ g.version = S10
        /\ g.version_sort_index = <<"x">>
        /\ g.release_sort_index = Encode(S9)
        /\ d.version_sort_index = Encode(S10)
        /\ d.release_sort_index = Encode(d.release)

-----------------------------------------------------------------------------
(* ISOManifest.__init__: the rows csv.reader yields are unpacked one by    *)
(* one into ISO units.  A row is a sequence of fields; a name or checksum  *)
(* is a string, a size field a sequence of characters.                     *)

FILENAME == "PULP_MANIFEST"

\* int(size) accepts an optional sign followed by decimal digits (the size
\* fields used here carry no surrounding whitespace)
IntBody(text) ==
    IF text # <<>> /\ Head(text) \in {"-", "+"} THEN Tail(text) ELSE text

IsIntLiteral(text) ==
    /\ IntBody(text) # <<>>
    /\ \A i \in 1..Len(IntBody(text)) : IsDigit(IntBody(text)[i])

IntOf(text) ==
    IF Head(text) = "-" THEN 0 - NumVal(IntBody(text)) ELSE NumVal(IntBody(text))

\* urlparse.urljoin.  A URL is split into scheme, netloc and the segments
\* its path has between "/" (path.split('/')); the names used here carry no
\* query, no fragment and no "." or ".." segment.
UrlSplit(u) ==
    CASE u = "http://example.com/repo/" ->
             [scheme |-> "http", netloc |-> "example.com", path |-> <<"", "repo", "">>]
      [] u = "http://example.com/repo" ->
             [scheme |-> "http", netloc |-> "example.com", path |-> <<"", "repo">>]
      [] u = "http://other.org/b.iso" ->
             [scheme |-> "http", netloc |-> "other.org", path |-> <<"", "b.iso">>]
      [] u = "a.iso" -> [scheme |-> "", netloc |-> "", path |-> <<"a.iso">>]
      [] u = "PULP_MANIFEST" -> [scheme |-> "", netloc |-> "", path |-> <<"PULP_MANIFEST">>]
      [] u = "" -> [scheme |-> "", netloc |-> "", path |-> <<"">>]

\* '/'.join(segments)
RECURSIVE JoinSegments(_)
JoinSegments(segments) ==
    IF Len(segments) = 0 THEN ""
    ELSE IF Len(segments) = 1 THEN segments[1]
    ELSE segments[1] \o "/" \o JoinSegments(Tail(segments))

\* urlunparse
UrlUnsplit(parts) ==
    (IF parts.netloc # "" THEN parts.scheme \o "://" \o parts.netloc ELSE "")
        \o JoinSegments(parts.path)

\* a join that only writes the name after the base
UrlJoin_concat(base, name) == base \o name

\* urljoin(base, url): an empty url gives the base; a url with its own
\* netloc is returned as it is; a path starting with "/" replaces the base's
\* path; any other path replaces the last segment of the base's path
UrlJoin(base, name) ==
    LET b == UrlSplit(base)
        u == UrlSplit(name)
    IN IF name = "" THEN base
       ELSE IF u.scheme # "" /\ u.scheme # b.scheme THEN name
       ELSE IF u.netloc # "" THEN UrlUnsplit(u)
       ELSE IF u.path[1] = "" /\ Len(u.path) > 1
            THEN UrlUnsplit([b EXCEPT !.path = u.path])
       ELSE UrlUnsplit([b EXCEPT !.path = SubSeq(b.path, 1, Len(b.path) - 1) \o u.path])

\* one pass of the loop body on a row: {} when it raises ValueError (the
\* unpacking of a row that has not three fields, or int() of the size),
\* else the ISO it appends
ParsedRow_firstThree(unit, url) ==
    IF Len(unit) < 3 THEN {}
    ELSE IF ~IsIntLiteral(unit[3]) THEN {}
    ELSE {[name |-> unit[1], size |-> IntOf(unit[3]), checksum |-> unit[2],
           url |-> UrlJoin(url, unit[1])]}

ParsedRow(unit, url) ==
    IF Len(unit) # 3 THEN {}
    ELSE IF ~IsIntLiteral(unit[3]) THEN {}
    ELSE {[name |-> unit[1], size |-> IntOf(unit[3]), checksum |-> unit[2],
           url |-> UrlJoin(url, unit[1])]}

ManifestNames == {"a.iso", "PULP_MANIFEST", ""}
\* names that are URLs of their own
ManifestUrlNames == {"http://other.org/b.iso"}
\* the repository URL as given and with its closing "/" left off
ManifestRepoUrls == {"http://example.com/repo/", "http://example.com/repo"}
ManifestChecksums == {"c1"}
SizeTexts == {<<"0">>, <<"1", "0">>, <<"-", "1">>, <<"x">>, <<>>}

\* the rows a manifest file is made of
ManifestRows ==
    {<<n, c, t>> : n \in ManifestNames, c \in ManifestChecksums, t \in SizeTexts}
        \cup {<<>>, <<"a.iso">>, <<"a.iso", "c1">>, <<"a.iso", "c1", <<"1", "0">>, "x">>}
        \cup {<<n, "c1", <<"0">>>> : n \in ManifestUrlNames}

InitManifest ==
    /\ manifest_file \in UNION {[1..n -> ManifestRows] : n \in 0..MaxRows}
    /\ repo_url \in ManifestRepoUrls
    /\ pc = "start"
    /\ row = 0
    /\ isos = <<>>
    /\ manifest = {}
    /\ raised = "none"
    /\ iterated = {}
    /\ counted = {}
    /\ ParkEnc /\ ParkPkg /\ ParkSave /\ ParkVal /\ ParkCon /\ ParkCall

\* manifest_file.seek(0); manifest_csv = csv.reader(manifest_file); self._isos = []
Construct ==
    /\ pc = "start"
    /\ pc' = "loop"
    /\ row' = 0
    /\ isos' = <<>>
    /\ UNCHANGED <<manifest_file, repo_url, manifest, raised, iterated, counted,
                   encVars, pkgVars, saveVars, valVars, conVars, callVars>>

\* a loop that drops the rows it cannot parse
ParseRow_skipMalformed ==
    /\ pc = "loop"
    /\ row < Len(manifest_file)
    /\ LET parsed == ParsedRow(manifest_file[row + 1], repo_url)
       IN isos' = IF parsed = {} THEN isos
                  ELSE Append(isos, CHOOSE iso \in parsed : TRUE)
    /\ row' = row + 1
    /\ UNCHANGED <<pc, raised, manifest_file, repo_url, manifest, iterated, counted,
                   encVars, pkgVars, saveVars, valVars, conVars, callVars>>

\* a loop that puts each new ISO in front of the earlier ones
ParseRow_prepend ==
    /\ pc = "loop"
    /\ row < Len(manifest_file)
    /\ LET parsed == ParsedRow(manifest_file[row + 1], repo_url)
       IN IF parsed = {}
          THEN /\ pc' = "raised"
               /\ raised' = "ValueError"
               /\ UNCHANGED <<row, isos>>
          ELSE /\ isos' = <<CHOOSE iso \in parsed : TRUE>> \o isos
               /\ row' = row + 1
               /\ UNCHANGED <<pc, raised>>
    /\ UNCHANGED <<manifest_file, repo_url, manifest, iterated, counted,
                   encVars, pkgVars, saveVars, valVars, conVars, callVars>>

\* for unit in manifest_csv: one row; an exception leaves the constructor,
\* and the caller is left without the object
ParseRow ==
    /\ pc = "loop"
    /\ row < Len(manifest_file)
    /\ LET parsed == ParsedRow(manifest_file[row + 1], repo_url)
       IN IF parsed = {}
          THEN /\ pc' = "raised"
               /\ raised' = "ValueError"
               /\ UNCHANGED <<row, isos>>
          ELSE /\ isos' = Append(isos, CHOOSE iso \in parsed : TRUE)
               /\ row' = row + 1
               /\ UNCHANGED <<pc, raised>>
    /\ UNCHANGED <<manifest_file, repo_url, manifest, iterated, counted,
                   encVars, pkgVars, saveVars, valVars, conVars, callVars>>

\* the loop is exhausted: __init__ returns and the caller holds the object
Return ==
    /\ pc = "loop"
    /\ row = Len(manifest_file)
    /\ pc' = "done"
    /\ manifest' = {isos}
    /\ UNCHANGED <<manifest_file, repo_url, row, isos, raised, iterated, counted,
                   encVars, pkgVars, saveVars, valVars, conVars, callVars>>

\* iter(self._isos), run to its end by the caller
ISOManifest_iter(self_isos) == [k \in 1..Len(self_isos) |-> self_isos[k]]

\* len(self._isos)
ISOManifest_len(self_isos) == Len(self_isos)

\* an iteration that hands the entries out and keeps none
Iterate_consuming ==
    /\ manifest # {}
    /\ iterated' = {ISOManifest_iter(isos)}
    /\ isos' = <<>>
    /\ manifest' = {<<>>}
    /\ UNCHANGED <<manifest_file, repo_url, pc, row, raised, counted,
                   encVars, pkgVars, saveVars, valVars, conVars, callVars>>

\* list(manifest)
Iterate ==
    /\ manifest # {}
    /\ iterated' = {ISOManifest_iter(isos)}
    /\ UNCHANGED <<manifest_file, repo_url, pc, row, isos, manifest, raised, counted,
                   encVars, pkgVars, saveVars, valVars, conVars, callVars>>

\* len(manifest)
Count ==
    /\ manifest # {}
    /\ counted' = {ISOManifest_len(isos)}
    /\ UNCHANGED <<manifest_file, repo_url, pc, row, isos, manifest, raised, iterated,
                   encVars, pkgVars, saveVars, valVars, conVars, callVars>>

NextManifest == Construct \/ ParseRow \/ Return \/ Iterate \/ Count

SpecManifest == InitManifest /\ [][NextManifest]_vars

-----------------------------------------------------------------------------
(* Claims on the manifest reader *)

Finished == pc \in {"done", "raised"}

\* the size field is the decimal text of a non-negative integer
IsNonNegativeIntText(text) == IsIntLiteral(text) /\ Head(text) # "-"

\* C8: parsing a manifest in which any row has a field count other than 3
\* (fewer fields, more fields, or an empty row) fails with the parse error
\* and produces no manifest.
C8_WrongFieldCountFails ==
    Finished /\ (\E i \in 1..Len(manifest_file) : Len(manifest_file[i]) # 3) =>
        raised = "ValueError" /\ manifest = {}

C8_Witness ==
    /\ pc = "raised"
    /\ manifest = {}
    /\ row = 1
    /\ Len(manifest_file[2]) = 4
    /\ Len(manifest_file) = 3
    /\ manifest_file[3] = <<>>

\* C9: parsing a manifest in which any row's size field is not a
\* non-negative integer (non-numeric text, or a negative integer such as -1)
\* fails with the parse error; so every entry of a parsed manifest has
\* size >= 0.
C9_BadSizeFails ==
    /\ Finished /\ (\E i \in 1..Len(manifest_file) :
                       /\ Len(manifest_file[i]) = 3
                       /\ ~IsNonNegativeIntText(manifest_file[i][3]))
          => raised = "ValueError" /\ manifest = {}
    /\ \A m \in manifest : \A k \in 1..Len(m) : m[k].size >= 0

ExpectedSize(text) ==
    CASE text = <<"0">> -> 0
      [] text = <<"1", "0">> -> 10
      [] text = <<"-", "1">> -> 0 - 1

\* entry e carries the name, checksum and integer size of row r
EntryOfRow(e, r) ==
    /\ Len(r) = 3
    /\ e.name = r[1]
    /\ e.checksum = r[2]
    /\ e.size = ExpectedSize(r[3])

\* C11: a successful parse yields exactly one entry per manifest row, in
\* row order, each with that row's name, checksum and integer size;
\* iterating the manifest yields these entries in row order and its count is
\* the number of rows.
C11_EntriesMirrorRows ==
    /\ \A m \in manifest :
          /\ Len(m) = Len(manifest_file)
          /\ \A k \in 1..Len(m) : EntryOfRow(m[k], manifest_file[k])
    /\ \A s \in iterated :
          /\ Len(s) = Len(manifest_file)
          /\ \A k \in 1..Len(s) : EntryOfRow(s[k], manifest_file[k])
    /\ \A n \in counted : n = Len(manifest_file)

C11_Witness ==
    /\ pc = "done"
    /\ manifest_file = << <<"a.iso", "c1", <<"1", "0">>>>,
                          <<"", "c1", <<"0">>>>,
                          <<"a.iso", "c1", <<"0">>>> >>
    /\ \E s \in iterated : s[1].size = 10 /\ s[2].name = "" /\ s[3].size = 0
    /\ counted = {3}

-----------------------------------------------------------------------------
(* ISO.validate_iso.  The file at storage_path is a sequence of bytes.     *)
(* file_utils.calculate_size and file_utils.calculate_checksum are         *)
(* imported by models.py; they are modelled from the design: the size is   *)
(* found by seeking to the end of the handle, the checksum by reading the  *)
(* whole file in chunks into a streaming digest.  The digest stands for    *)
(* sha256 and has sixteen values, written as one lower-case hex digit.     *)

\* bytes read into memory at a time (32 MiB in the source, scaled down)
CHECKSUM_CHUNK_SIZE == 2

FileBytes == {1, 2}

HexDigits ==
    <<"0", "1", "2", "3", "4", "5", "6", "7", "8", "9", "a", "b", "c", "d", "e", "f">>

\* hasher.update(bits)
RECURSIVE HasherUpdate(_, _)
HasherUpdate(h, bits) ==
    IF bits = <<>> THEN h
    ELSE HasherUpdate((h * 3 + Head(bits)) % 16, Tail(bits))

\* hasher.hexdigest()
HexDigest(h) == <<HexDigits[h + 1]>>

Min(x, y) == IF x < y THEN x ELSE y

\* the read loop from position pos on: [h, pos, reads] when read() returns
\* nothing more
RECURSIVE ReadLoop(_, _, _, _)
ReadLoop(content, pos, h, reads) ==
    LET bits == SubSeq(content, pos + 1, Min(pos + CHECKSUM_CHUNK_SIZE, Len(content)))
    IN IF bits = <<>> THEN [h |-> h, pos |-> pos, reads |-> reads + 1]
       ELSE ReadLoop(content, pos + Len(bits), HasherUpdate(h, bits), reads + 1)

\* file_utils.calculate_size: seek to the end, tell()
file_utils_calculate_size(file_handle, content) ==
    [value |-> Len(content),
     handle |-> [file_handle EXCEPT !.pos = Len(content)]]

\* the read loop run from wherever the handle stands
file_utils_calculate_checksum_noRewind(file_handle, content) ==
    LET r == ReadLoop(content, file_handle.pos, 0, file_handle.reads)
    IN [value |-> HexDigest(r.h),
        handle |-> [file_handle EXCEPT !.pos = r.pos, !.reads = r.reads]]

\* file_utils.calculate_checksum: seek to the start, read to the end
file_utils_calculate_checksum(file_handle, content) ==
    LET r == ReadLoop(content, 0, 0, file_handle.reads)
    IN [value |-> HexDigest(r.h),
        handle |-> [file_handle EXCEPT !.pos = r.pos, !.reads = r.reads]]

ISO_calculate_checksum_noRewind(file_handle, content) ==
    file_utils_calculate_checksum_noRewind(file_handle, content)

\* ISO.calculate_checksum
ISO_calculate_checksum(file_handle, content) ==
    file_utils_calculate_checksum(file_handle, content)

\* ISO.calculate_size
ISO_calculate_size(file_handle, content) ==
    file_utils_calculate_size(file_handle, content)

\* if actual_size != self.size
SizeMismatch_onlyLarger(actual, expected) == actual > expected

SizeMismatch(actual, expected) == actual # expected

\* if actual_checksum != self.checksum
ChecksumMismatch(actual, expected) == actual # expected

ValidateNames == {"a.iso", FILENAME}
ValidateSizes == (0 - 1)..MaxFileLen
ValidateChecksums == {<<HexDigits[k]>> : k \in 1..Len(HexDigits)}

\* the files that may lie at storage_path
Files == UNION {[1..n -> FileBytes] : n \in 0..MaxFileLen}

ClosedHandle == [opened |-> FALSE, pos |-> 0, reads |-> 0]

InitValidate ==
    /\ self_iso \in [name : ValidateNames, size : ValidateSizes,
                     checksum : ValidateChecksums]
    /\ storage \in [exists : {TRUE}, content : Files]
                       \cup {[exists |-> FALSE, content |-> <<>>]}
    /\ full_validation \in BOOLEAN
    /\ vpc = "call"
    /\ destination_file = ClosedHandle
    /\ actual_size = {}
    /\ actual_checksum = {}
    /\ verror = {}
    /\ ParkEnc /\ ParkPkg /\ ParkSave /\ ParkIso /\ ParkCon /\ ParkCall

\* a name check that is made only under full validation
ValidateName_onlyFull ==
    /\ vpc = "call"
    /\ IF full_validation /\ self_iso.name = FILENAME
       THEN /\ vpc' = "raised"
            /\ verror' = {[kind |-> "name", name |-> FILENAME]}
       ELSE /\ vpc' = IF full_validation THEN "open" ELSE "returned"
            /\ UNCHANGED verror
    /\ UNCHANGED <<self_iso, storage, full_validation, destination_file,
                   actual_size, actual_checksum, encVars, pkgVars, saveVars, isoVars, conVars, callVars>>

\* a call that validates size and checksum whatever full_validation is
ValidateName_alwaysFull ==
    /\ vpc = "call"
    /\ IF self_iso.name = FILENAME
       THEN /\ vpc' = "raised"
            /\ verror' = {[kind |-> "name", name |-> FILENAME]}
       ELSE /\ vpc' = "open"
            /\ UNCHANGED verror
    /\ UNCHANGED <<self_iso, storage, full_validation, destination_file,
                   actual_size, actual_checksum, encVars, pkgVars, saveVars, isoVars, conVars, callVars>>

\* if self.name == ISOManifest.FILENAME: raise ValueError; if full_validation:
ValidateName ==
    /\ vpc = "call"
    /\ IF self_iso.name = FILENAME
       THEN /\ vpc' = "raised"
            /\ verror' = {[kind |-> "name", name |-> FILENAME]}
       ELSE /\ vpc' = IF full_validation THEN "open" ELSE "returned"
            /\ UNCHANGED verror
    /\ UNCHANGED <<self_iso, storage, full_validation, destination_file,
                   actual_size, actual_checksum, encVars, pkgVars, saveVars, isoVars, conVars, callVars>>

\* with open(storage_path) as destination_file: IOError when there is no file
OpenFile ==
    /\ vpc = "open"
    /\ IF storage.exists
       THEN /\ destination_file' = [opened |-> TRUE, pos |-> 0, reads |-> 0]
            /\ vpc' = "size"
            /\ UNCHANGED verror
       ELSE /\ vpc' = "raised"
            /\ verror' = {[kind |-> "IOError"]}
            /\ UNCHANGED destination_file
    /\ UNCHANGED <<self_iso, storage, full_validation, actual_size, actual_checksum,
                   encVars, pkgVars, saveVars, isoVars, conVars, callVars>>

\* a size check that stores what it found on the unit
ValidateSize_storesSize ==
    /\ vpc = "size"
    /\ LET r == ISO_calculate_size(destination_file, storage.content)
       IN /\ actual_size' = {r.value}
          /\ destination_file' = r.handle
          /\ self_iso' = [self_iso EXCEPT !.size = r.value]
          /\ vpc' = "checksum"
    /\ UNCHANGED <<verror, storage, full_validation, actual_checksum,
                   encVars, pkgVars, saveVars, isoVars, conVars, callVars>>

\* a size check that goes on to the checksum whatever it found
ValidateSize_noRaise ==
    /\ vpc = "size"
    /\ LET r == ISO_calculate_size(destination_file, storage.content)
       IN /\ actual_size' = {r.value}
          /\ destination_file' = r.handle
          /\ vpc' = "checksum"
    /\ UNCHANGED <<verror, self_iso, storage, full_validation, actual_checksum,
                   encVars, pkgVars, saveVars, isoVars, conVars, callVars>>

\* actual_size = self.calculate_size(destination_file); if it is not
\* self.size: raise ValueError
ValidateSize ==
    /\ vpc = "size"
    /\ LET r == ISO_calculate_size(destination_file, storage.content)
       IN /\ actual_size' = {r.value}
          /\ destination_file' = r.handle
          /\ IF SizeMismatch(r.value, self_iso.size)
             THEN /\ vpc' = "raised"
                  /\ verror' = {[kind |-> "size", name |-> self_iso.name,
                                 expected |-> self_iso.size, found |-> r.value]}
             ELSE /\ vpc' = "checksum"
                  /\ UNCHANGED verror
    /\ UNCHANGED <<self_iso, storage, full_validation, actual_checksum,
                   encVars, pkgVars, saveVars, isoVars, conVars, callVars>>

\* a checksum check whose message has the two checksums the wrong way round
ValidateChecksum_swapped ==
    /\ vpc = "checksum"
    /\ LET r == ISO_calculate_checksum(destination_file, storage.content)
       IN /\ actual_checksum' = {r.value}
          /\ destination_file' = r.handle
          /\ IF ChecksumMismatch(r.value, self_iso.checksum)
             THEN /\ vpc' = "raised"
                  /\ verror' = {[kind |-> "checksum", name |-> self_iso.name,
                                 expected |-> r.value, found |-> self_iso.checksum]}
             ELSE /\ vpc' = "returned"
                  /\ UNCHANGED verror
    /\ UNCHANGED <<self_iso, storage, full_validation, actual_size,
                   encVars, pkgVars, saveVars, isoVars, conVars, callVars>>

\* actual_checksum = self.calculate_checksum(destination_file); if it is not
\* self.checksum: raise ValueError
ValidateChecksum ==
    /\ vpc = "checksum"
    /\ LET r == ISO_calculate_checksum(destination_file, storage.content)
       IN /\ actual_checksum' = {r.value}
          /\ destination_file' = r.handle
          /\ IF ChecksumMismatch(r.value, self_iso.checksum)
             THEN /\ vpc' = "raised"
                  /\ verror' = {[kind |-> "checksum", name |-> self_iso.name,
                                 expected |-> self_iso.checksum, found |-> r.value]}
             ELSE /\ vpc' = "returned"
                  /\ UNCHANGED verror
    /\ UNCHANGED <<self_iso, storage, full_validation, actual_size,
                   encVars, pkgVars, saveVars, isoVars, conVars, callVars>>

NextValidate == ValidateName \/ OpenFile \/ ValidateSize \/ ValidateChecksum

SpecValidate == InitValidate /\ [][NextValidate]_vars

\* the call has ended, by returning or by raising
ValidateDone == vpc \in {"returned", "raised"}

NameOk == self_iso.name # FILENAME

\* the digest of the whole content, taken in one piece
WholeDigest(content) == HexDigest(HasherUpdate(0, content))

NoFileTouched ==
    /\ destination_file = ClosedHandle
    /\ actual_size = {}
    /\ actual_checksum = {}

\* C12: a unit named PULP_MANIFEST fails validation with the reserved-name
\* error whether or not full validation was asked for, and the file has not
\* been opened or read when it does.
C12_ReservedNameFails ==
    (self_iso.name = FILENAME /\ vpc # "call") =>
        /\ vpc = "raised"
        /\ verror # {}
        /\ \A e \in verror : e.kind = "name" /\ e.name = FILENAME
        /\ NoFileTouched

C12_Witness ==
    /\ self_iso.name = FILENAME
    /\ ~full_validation
    /\ storage.exists
    /\ vpc = "raised"

\* C13: under full validation a file whose length is not self.size fails
\* with the size error, which carries the declared and the found size,
\* whatever the file's checksum is.
C13_SizeMismatchFails ==
    (/\ full_validation /\ NameOk /\ storage.exists
     /\ Len(storage.content) # self_iso.size
     /\ vpc \notin {"call", "open", "size"}) =>
        /\ vpc = "raised"
        /\ verror # {}
        /\ \A e \in verror :
              /\ e.kind = "size"
              /\ e.expected = self_iso.size
              /\ e.found = Len(storage.content)

C13_Witness ==
    /\ full_validation /\ NameOk /\ storage.exists
    /\ Len(storage.content) < self_iso.size
    /\ self_iso.checksum = WholeDigest(storage.content)
    /\ vpc = "raised"

\* C14: under full validation a file of the declared length whose digest is
\* not self.checksum fails with the checksum error, which carries the
\* declared and the found checksum.
C14_ChecksumMismatchFails ==
    (/\ full_validation /\ NameOk /\ storage.exists
     /\ Len(storage.content) = self_iso.size
     /\ WholeDigest(storage.content) # self_iso.checksum
     /\ ValidateDone) =>
        /\ vpc = "raised"
        /\ verror # {}
        /\ \A e \in verror :
              /\ e.kind = "checksum"
              /\ e.expected = self_iso.checksum
              /\ e.found = WholeDigest(storage.content)

C14_Witness ==
    /\ full_validation /\ NameOk /\ storage.exists
    /\ Len(storage.content) = self_iso.size
    /\ Len(storage.content) > 0
    /\ WholeDigest(storage.content) # self_iso.checksum
    /\ vpc = "raised"

\* C15: under full validation a file with the declared length and the
\* declared checksum passes, and the checksum that is compared is the digest
\* of the whole file although the size check left the handle at its end.
C15_MatchingFilePasses ==
    /\ (/\ full_validation /\ NameOk /\ storage.exists
        /\ Len(storage.content) = self_iso.size
        /\ WholeDigest(storage.content) = self_iso.checksum
        /\ ValidateDone) =>
            (vpc = "returned" /\ verror = {})
    /\ vpc = "checksum" => destination_file.pos = Len(storage.content)
    /\ \A c \in actual_checksum : c = WholeDigest(storage.content)

C15_Witness ==
    /\ full_validation /\ NameOk /\ storage.exists
    /\ Len(storage.content) > CHECKSUM_CHUNK_SIZE
    /\ vpc = "returned"
    /\ actual_checksum = {self_iso.checksum}

\* C16: without full validation only the name is checked: the file is not
\* opened or read, no size or checksum is computed, and every unit not named
\* PULP_MANIFEST passes whatever lies at storage_path.
C16_LightValidationOnlyName ==
    (~full_validation /\ vpc # "call") =>
        /\ NoFileTouched
        /\ NameOk => (vpc = "returned" /\ verror = {})

C16_Witness ==
    /\ ~full_validation /\ NameOk
    /\ ~storage.exists
    /\ vpc = "returned"

\* C17 as stated: under full validation both the size and the checksum have
\* been computed when the call ends, a size mismatch included.
C17_BothChecksAlwaysAttempted ==
    (full_validation /\ NameOk /\ storage.exists /\ ValidateDone) =>
        (actual_size # {} /\ actual_checksum # {})

\* C17: under full validation the size is always computed, and the checksum
\* is computed exactly when the size was the declared one: a size mismatch
\* ends the call before the checksum is read.
C17_ChecksumOnlyAfterSizeMatch ==
    (full_validation /\ NameOk /\ storage.exists /\ ValidateDone) =>
        /\ actual_size = {Len(storage.content)}
        /\ actual_checksum # {} <=> Len(storage.content) = self_iso.size

C17_Witness ==
    /\ full_validation /\ NameOk /\ storage.exists
    /\ Len(storage.content) # self_iso.size
    /\ WholeDigest(storage.content) # self_iso.checksum
    /\ vpc = "raised"
    /\ actual_size # {}
    /\ actual_checksum = {}

\* C20: no step of a validation changes the unit's name, checksum or size
\* or the content of the file, whatever the outcome.
C20_ValidateReadsOnly ==
    [][self_iso' = self_iso /\ storage' = storage]_vars

C20_Witness ==
    /\ full_validation /\ NameOk /\ storage.exists
    /\ Len(storage.content) > 0
    /\ destination_file.opened
    /\ destination_file.reads > 0
    /\ vpc = "returned"

\* C18 as stated: no entry of a parsed manifest is named PULP_MANIFEST.
C18_NoReservedNameEntry ==
    \A m \in manifest : \A k \in 1..Len(m) : m[k].name # FILENAME

\* C19 as stated: the names of a parsed manifest's entries are non-empty and
\* pairwise distinct.
C19_NamesNonEmptyDistinct ==
    \A m \in manifest :
        /\ \A k \in 1..Len(m) : m[k].name # ""
        /\ \A j, k \in 1..Len(m) : m[j].name = m[k].name => j = k

\* C21: once the constructor has returned, no iteration and no count
\* changes the manifest's entries; every iteration yields those entries in
\* their order, and the count is the number of entries an iteration yields.
C21_ManifestImmutable ==
    [][pc = "done" =>
          /\ isos' = isos
          /\ manifest' = manifest
          /\ \A s \in iterated' : s = isos
          /\ \A n \in counted' : n = Len(isos)
          /\ \A n \in counted' : \A s \in iterated' : n = Len(s)
          /\ iterated # {} => iterated' = iterated
          /\ counted # {} => counted' = counted]_vars

C21_Witness ==
    /\ pc = "done"
    /\ Len(isos) = 2
    /\ isos[1] # isos[2]
    /\ manifest = {isos}
    /\ iterated = {isos}
    /\ counted = {2}

\* the base URL up to and including the last "/" of its path
BaseDirectory(base) ==
    CASE base = "http://example.com/repo/" -> "http://example.com/repo/"
      [] base = "http://example.com/repo" -> "http://example.com/"

\* the base URL with a name appended to its path
AppendedToPath(base, name) ==
    CASE base = "http://example.com/repo/" -> "http://example.com/repo/" \o name
      [] base = "http://example.com/repo" -> "http://example.com/repo/" \o name

-----------------------------------------------------------------------------
(* SpecConcurrent: validate_iso called from two threads at once, each on   *)
(* its own ISO.  A call is a record with the fields of SpecValidate's      *)
(* variables; the file system is shared and a handle belongs to the call   *)
(* that opened it.  Each thread takes the steps of SpecValidate, in any    *)
(* interleaving with the other.                                            *)

Threads == {"t1", "t2"}
Paths == {"p1", "p2"}

ConcurrentSizes == {1, 2}
ConcurrentFiles ==
    {[exists |-> FALSE, content |-> <<>>],
     [exists |-> TRUE, content |-> <<1>>],
     [exists |-> TRUE, content |-> <<1, 2>>]}
\* the digests of <<1>> and <<1, 2>>
ConcurrentChecksums == {<<"1">>, <<"5">>}

NewCall(iso, path, full) ==
    [self_iso |-> iso, storage_path |-> path, full_validation |-> full,
     vpc |-> "call", destination_file |-> ClosedHandle,
     actual_size |-> {}, actual_checksum |-> {}, verror |-> {}]

InitConcurrent ==
    /\ files \in [Paths -> ConcurrentFiles]
    /\ calls \in [Threads ->
                    {NewCall(iso, path, full) :
                        iso \in [name : ValidateNames, size : ConcurrentSizes,
                                 checksum : ConcurrentChecksums],
                        path \in Paths, full \in BOOLEAN}]
    /\ ParkEnc /\ ParkPkg /\ ParkSave /\ ParkIso /\ ParkVal /\ ParkCall

\* ValidateName, in thread t
ThreadValidateName(t) ==
    /\ calls[t].vpc = "call"
    /\ LET c == calls[t]
       IN calls' = [calls EXCEPT ![t] =
             IF c.self_iso.name = FILENAME
             THEN [c EXCEPT !.vpc = "raised",
                            !.verror = {[kind |-> "name", name |-> FILENAME]}]
             ELSE [c EXCEPT !.vpc = IF c.full_validation THEN "open" ELSE "returned"]]
    /\ UNCHANGED <<files, encVars, pkgVars, saveVars, isoVars, valVars, callVars>>

\* OpenFile, in thread t
ThreadOpenFile(t) ==
    /\ calls[t].vpc = "open"
    /\ LET c == calls[t]
       IN calls' = [calls EXCEPT ![t] =
             IF files[c.storage_path].exists
             THEN [c EXCEPT !.vpc = "size",
                            !.destination_file = [opened |-> TRUE, pos |-> 0, reads |-> 0]]
             ELSE [c EXCEPT !.vpc = "raised", !.verror = {[kind |-> "IOError"]}]]
    /\ UNCHANGED <<files, encVars, pkgVars, saveVars, isoVars, valVars, callVars>>

\* a size check whose handle is one object used by every thread: the seek
\* moves the handle of every call that has the file open
ThreadValidateSize_sharedHandle(t) ==
    /\ calls[t].vpc = "size"
    /\ LET c == calls[t]
           r == ISO_calculate_size(c.destination_file, files[c.storage_path].content)
           after == IF SizeMismatch(r.value, c.self_iso.size)
                    THEN [c EXCEPT !.actual_size = {r.value},
                                   !.destination_file = r.handle,
                                   !.vpc = "raised",
                                   !.verror = {[kind |-> "size", name |-> c.self_iso.name,
                                                expected |-> c.self_iso.size,
                                                found |-> r.value]}]
                    ELSE [c EXCEPT !.actual_size = {r.value},
                                   !.destination_file = r.handle,
                                   !.vpc = "checksum"]
       IN calls' = [u \in Threads |->
                      IF u = t THEN after
                      ELSE IF calls[u].destination_file.opened
                           THEN [calls[u] EXCEPT !.destination_file = r.handle,
                                                 !.actual_size = {r.value}]
                           ELSE calls[u]]
    /\ UNCHANGED <<files, encVars, pkgVars, saveVars, isoVars, valVars, callVars>>

\* ValidateSize, in thread t
ThreadValidateSize(t) ==
    /\ calls[t].vpc = "size"
    /\ LET c == calls[t]
           r == ISO_calculate_size(c.destination_file, files[c.storage_path].content)
       IN calls' = [calls EXCEPT ![t] =
             IF SizeMismatch(r.value, c.self_iso.size)
             THEN [c EXCEPT !.actual_size = {r.value},
                            !.destination_file = r.handle,
                            !.vpc = "raised",
                            !.verror = {[kind |-> "size", name |-> c.self_iso.name,
                                         expected |-> c.self_iso.size,
                                         found |-> r.value]}]
             ELSE [c EXCEPT !.actual_size = {r.value},
                            !.destination_file = r.handle,
                            !.vpc = "checksum"]]
    /\ UNCHANGED <<files, encVars, pkgVars, saveVars, isoVars, valVars, callVars>>

\* ValidateChecksum, in thread t
ThreadValidateChecksum(t) ==
    /\ calls[t].vpc = "checksum"
    /\ LET c == calls[t]
           r == ISO_calculate_checksum(c.destination_file, files[c.storage_path].content)
       IN calls' = [calls EXCEPT ![t] =
             IF ChecksumMismatch(r.value, c.self_iso.checksum)
             THEN [c EXCEPT !.actual_checksum = {r.value},
                            !.destination_file = r.handle,
                            !.vpc = "raised",
                            !.verror = {[kind |-> "checksum", name |-> c.self_iso.name,
                                         expected |-> c.self_iso.checksum,
                                         found |-> r.value]}]
             ELSE [c EXCEPT !.actual_checksum = {r.value},
                            !.destination_file = r.handle,
                            !.vpc = "returned"]]
    /\ UNCHANGED <<files, encVars, pkgVars, saveVars, isoVars, valVars, callVars>>

NextConcurrent ==
    \E t \in Threads :
        \/ ThreadValidateName(t)
        \/ ThreadOpenFile(t)
        \/ ThreadValidateSize(t)
        \/ ThreadValidateChecksum(t)

SpecConcurrent == InitConcurrent /\ [][NextConcurrent]_vars

\* what a call that runs with no other call beside it ends with
RunAlone(iso, file, full) ==
    LET ended(p, size, checksum, handle, err) ==
            [vpc |-> p, actual_size |-> size, actual_checksum |-> checksum,
             destination_file |-> handle, verror |-> err]
        n == Len(file.content)
        atEnd(k) == [opened |-> TRUE, pos |-> n, reads |-> k]
        \* one read per chunk and the one that finds the end
        reads == (n + CHECKSUM_CHUNK_SIZE - 1) \div CHECKSUM_CHUNK_SIZE + 1
    IN IF iso.name = FILENAME
       THEN ended("raised", {}, {}, ClosedHandle, {[kind |-> "name", name |-> FILENAME]})
       ELSE IF ~full THEN ended("returned", {}, {}, ClosedHandle, {})
       ELSE IF ~file.exists
       THEN ended("raised", {}, {}, ClosedHandle, {[kind |-> "IOError"]})
       ELSE IF n # iso.size
       THEN ended("raised", {n}, {}, atEnd(0),
                  {[kind |-> "size", name |-> iso.name, expected |-> iso.size,
                    found |-> n]})
       ELSE IF WholeDigest(file.content) # iso.checksum
       THEN ended("raised", {n}, {WholeDigest(file.content)}, atEnd(reads),
                  {[kind |-> "checksum", name |-> iso.name,
                    expected |-> iso.checksum, found |-> WholeDigest(file.content)]})
       ELSE ended("returned", {n}, {WholeDigest(file.content)}, atEnd(reads), {})

\* C23: when a call has ended, its outcome, and what it computed on the
\* way, is what it would be with no other call running, whatever the other
\* thread did in between; and no step of a thread touches the other
\* thread's call or the files.
C23_ConcurrentCallsIndependent ==
    \A t \in Threads :
        LET c == calls[t]
            alone == RunAlone(c.self_iso, files[c.storage_path], c.full_validation)
        IN c.vpc \in {"returned", "raised"} =>
              /\ c.vpc = alone.vpc
              /\ c.actual_size = alone.actual_size
              /\ c.actual_checksum = alone.actual_checksum
              /\ c.destination_file = alone.destination_file
              /\ c.verror = alone.verror

C23_Witness ==
    /\ calls["t1"].storage_path = calls["t2"].storage_path
    /\ calls["t1"].full_validation /\ calls["t2"].full_validation
    /\ calls["t1"].self_iso.name # FILENAME /\ calls["t2"].self_iso.name # FILENAME
    /\ calls["t1"].self_iso.size # calls["t2"].self_iso.size
    /\ calls["t1"].vpc = "returned"
    /\ calls["t2"].vpc = "raised"
    /\ calls["t2"].actual_size # {}

-----------------------------------------------------------------------------
(* SpecVersion: complete_version read on a unit of DRPM, RPM or SRPM, and  *)
(* on a unit of a subclass of NonMetadataPackage that sets unit_key_fields *)
(* of its own.                                                             *)

\* a loop over the unit key, in the unit key's order
NonMetadataPackage_complete_version_keyOrder(self) ==
    LET keep == SelectSeq(self.unit_key_fields,
                          LAMBDA n : n \in {"epoch", "version", "release"})
    IN [i \in 1..Len(keep) |-> self[keep[i]]]

\* NonMetadataPackage.complete_version, the class's unit_key_fields read
\* through self
NonMetadataPackage_complete_version(self) ==
    ValuesInKey(self.unit_key_fields, self, <<"epoch", "version", "release">>)

KeyFieldNames == {"name", "epoch", "version", "release"}

\* the unit keys a subclass may declare: field names in any order, none twice
SubclassKeys ==
    {f \in UNION {[1..n -> KeyFieldNames] : n \in 0..Cardinality(KeyFieldNames)} :
        \A i, j \in DOMAIN f : f[i] = f[j] => i = j}

VersionUnits ==
    {[kind |-> k, unit_key_fields |-> UnitKeyFields(k),
      epoch |-> e, version |-> v, release |-> r] :
        k \in {"drpm", "rpm", "srpm"},
        e \in PkgEpochs, v \in PkgVersions, r \in PkgReleases}
    \cup
    {[kind |-> "subclass", unit_key_fields |-> f,
      epoch |-> e, version |-> v, release |-> r] :
        f \in SubclassKeys, e \in PkgEpochs, v \in PkgVersions, r \in PkgReleases}

InitVersion ==
    /\ call_args \in VersionUnits
    /\ call_result = {}
    /\ ParkEnc /\ ParkPkg /\ ParkSave /\ ParkIso /\ ParkVal /\ ParkCon

\* unit.complete_version
ReadCompleteVersion ==
    /\ call_result = {}
    /\ call_result' = {NonMetadataPackage_complete_version(call_args)}
    /\ UNCHANGED <<call_args, encVars, pkgVars, saveVars, isoVars, valVars, conVars>>

NextVersion == ReadCompleteVersion

SpecVersion == InitVersion /\ [][NextVersion]_vars

\* C24: complete_version holds the unit's epoch, version and release, each
\* exactly when its name is in the unit key, and always in the order epoch,
\* version, release; for DRPM, RPM and SRPM it is (epoch, version, release).
C24_CompleteVersionFields ==
    \A cv \in call_result :
        LET key == Range(call_args.unit_key_fields)
        IN /\ cv = (IF "epoch" \in key THEN <<call_args.epoch>> ELSE <<>>)
                     \o (IF "version" \in key THEN <<call_args.version>> ELSE <<>>)
                     \o (IF "release" \in key THEN <<call_args.release>> ELSE <<>>)
           /\ call_args.kind \in {"drpm", "rpm", "srpm"} =>
                 cv = <<call_args.epoch, call_args.version, call_args.release>>

C24_Witness ==
    /\ call_args.kind = "subclass"
    /\ call_args.unit_key_fields = <<"release", "name", "epoch">>
    /\ call_args.epoch = <<"0">>
    /\ call_args.release = <<"1", "a">>
    /\ call_result = {<< <<"0">>, <<"1", "a">> >>}

-----------------------------------------------------------------------------
(* SpecLegacy: UnitMixin.create_legacy_metadata_dict on a unit.  A field   *)
(* name is a sequence of characters; a unit maps the fields of its class   *)
(* to their values.                                                        *)

F_name == <<"n", "a", "m", "e">>
F_size == <<"s", "i", "z", "e">>
F_id == <<"_", "i", "d">>
F_ns == <<"_", "n", "s">>

ModelFields == {F_name, F_size, F_id, F_ns}
FieldValues == {"x", "y"}

\* k.startswith('_')
StartsWithUnderscore(k) == Len(k) > 0 /\ k[1] = "_"

\* UnitMixin.create_legacy_metadata_dict
create_legacy_metadata_dict(self) ==
    LET field_names == {k \in DOMAIN self.fields : ~StartsWithUnderscore(k)}
    IN [name \in field_names |-> self.fields[name]]

\* the units: the fields of the class with their values, and the class's
\* unit key, made of fields of the class
LegacyUnits ==
    {[fields |-> f, unit_key_fields |-> key] :
        f \in UNION {[fs -> FieldValues] : fs \in SUBSET ModelFields \ {{}}},
        key \in SUBSET {F_name, F_size}}

InitLegacy ==
    /\ call_args \in {u \in LegacyUnits : u.unit_key_fields \subseteq DOMAIN u.fields}
    /\ call_result = {}
    /\ ParkEnc /\ ParkPkg /\ ParkSave /\ ParkIso /\ ParkVal /\ ParkCon

\* unit.create_legacy_metadata_dict()
CreateLegacyMetadataDict ==
    /\ call_result = {}
    /\ call_result' = {create_legacy_metadata_dict(call_args)}
    /\ UNCHANGED <<call_args, encVars, pkgVars, saveVars, isoVars, valVars, conVars>>

NextLegacy == CreateLegacyMetadataDict

SpecLegacy == InitLegacy /\ [][NextLegacy]_vars

\* C25 as stated: the keys of the dictionary are the fields of the model
\* that are neither in the unit key nor start with an underscore, each with
\* the unit's value.
C25_LegacyDictOmitsUnitKey ==
    \A d \in call_result :
        /\ DOMAIN d = {k \in DOMAIN call_args.fields :
                          k \notin call_args.unit_key_fields /\ k[1] # "_"}
        /\ \A k \in DOMAIN d : d[k] = call_args.fields[k]

-----------------------------------------------------------------------------
(* SpecDistribution: Distribution(...).  A string is a sequence of    *)
(* characters; a field that was not given is None.                         *)

\* '-'.join(pieces)
RECURSIVE JoinDash(_)
JoinDash(pieces) ==
    IF Len(pieces) = 0 THEN <<>>
    ELSE IF Len(pieces) = 1 THEN pieces[1]
    ELSE pieces[1] \o <<"-">> \o JoinDash(Tail(pieces))

\* not self.distribution_id: None and the empty string are false
NotSet(value) == value = None \/ value = <<>>

\* a constructor that also leaves out the empty strings
Distribution_init_skipEmpty(kwargs) ==
    IF NotSet(kwargs.distribution_id)
    THEN LET id_pieces == SelectSeq(<<<<"k", "s">>, kwargs.family, kwargs.variant,
                                      kwargs.version, kwargs.arch>>,
                                    LAMBDA x : ~NotSet(x))
         IN [kwargs EXCEPT !.distribution_id = JoinDash(id_pieces)]
    ELSE kwargs

\* Distribution.__init__
Distribution_init(kwargs) ==
    IF NotSet(kwargs.distribution_id)
    THEN LET id_pieces == SelectSeq(<<<<"k", "s">>, kwargs.family, kwargs.variant,
                                      kwargs.version, kwargs.arch>>,
                                    LAMBDA x : x # None)
         IN [kwargs EXCEPT !.distribution_id = JoinDash(id_pieces)]
    ELSE kwargs

DistributionKwargs ==
    [distribution_id : {None, <<>>, <<"d">>},
     family : {None, <<"f">>},
     variant : {None, <<>>, <<"v">>},
     version : {None, <<"1">>},
     arch : {None, <<"x">>}]

InitDistribution ==
    /\ call_args \in DistributionKwargs
    /\ call_result = {}
    /\ ParkEnc /\ ParkPkg /\ ParkSave /\ ParkIso /\ ParkVal /\ ParkCon

\* Distribution(...)
ConstructDistribution ==
    /\ call_result = {}
    /\ call_result' = {Distribution_init(call_args)}
    /\ UNCHANGED <<call_args, encVars, pkgVars, saveVars, isoVars, valVars, conVars>>

NextDistribution == ConstructDistribution

SpecDistribution == InitDistribution /\ [][NextDistribution]_vars

\* "-" and the value, for a value that is not None
DashPiece(value) == IF value = None THEN <<>> ELSE <<"-">> \o value

\* C26: a Distribution built with no distribution_id, or an empty one, gets
\* "ks" and then the values of family, variant, version and arch that are
\* not None, in that order, joined by "-"; one built with a non-empty
\* distribution_id keeps it; the other fields are as given.
C26_DistributionIdDerived ==
    \A d \in call_result :
        /\ d.distribution_id =
              IF call_args.distribution_id = None \/ call_args.distribution_id = <<>>
              THEN <<"k", "s">> \o DashPiece(call_args.family)
                       \o DashPiece(call_args.variant)
                       \o DashPiece(call_args.version)
                       \o DashPiece(call_args.arch)
              ELSE call_args.distribution_id
        /\ d.family = call_args.family /\ d.variant = call_args.variant
        /\ d.version = call_args.version /\ d.arch = call_args.arch

C26_Witness ==
    /\ call_args.distribution_id = None
    /\ call_args.variant = <<>>
    /\ call_args.version = None
    /\ \E d \in call_result :
          d.distribution_id = <<"k", "s", "-", "f", "-", "-", "x">>

-----------------------------------------------------------------------------
(* SpecErrata: Errata.rpm_search_dicts.  A package of a pkglist collection *)
(* is a record; a key the dictionary may lack ('sum', 'sums', 'type',      *)
(* 'packages') is a set, empty when the key is missing.  A unit key is a   *)
(* function from the names of its keys.                                    *)

Some(S) == CHOOSE x \in S : TRUE

\* verification.sanitize_checksum_type: lower case, and 'sha' is 'sha1'
sanitize_checksum_type(t) ==
    CASE t = "SHA256" -> "sha256"
      [] t = "sha256" -> "sha256"
      [] t = "SHA" -> "sha1"
      [] t = "sha" -> "sha1"
      [] t = "sha1" -> "sha1"
      [] t = "md5" -> "md5"

\* the checksum and checksumtype the branches choose, {} standing for None
PackageChecksum(package) ==
    IF package.sum # {} /\ Len(Some(package.sum)) = 2
    THEN [checksum |-> {Some(package.sum)[2]},
          checksumtype |-> {sanitize_checksum_type(Some(package.sum)[1])}]
    ELSE IF package.sums # {} /\ package.type # {}
    THEN [checksum |-> package.sums,
          checksumtype |-> {sanitize_checksum_type(Some(package.type))}]
    ELSE [checksum |-> {}, checksumtype |-> {}]

\* RPM(name=..., checksum=checksum, checksumtype=checksumtype):
\* NonMetadataPackage.__init__ sanitizes a checksumtype that is not None
RPM_init(package, sums) ==
    [name |-> package.name, epoch |-> package.epoch, version |-> package.version,
     release |-> package.release, arch |-> package.arch,
     checksum |-> sums.checksum,
     checksumtype |-> {sanitize_checksum_type(t) : t \in sums.checksumtype}]

\* a unit key that keeps a key whose value is None
SearchDict_keepNone(rpm) ==
    [key \in {"name", "epoch", "version", "release", "arch", "checksumtype", "checksum"} |->
        IF key \in {"checksum", "checksumtype"}
        THEN (IF rpm[key] = {} THEN "None" ELSE Some(rpm[key]))
        ELSE rpm[key]]

\* rpm.unit_key without the keys 'checksum' and 'checksumtype' whose value
\* is None
SearchDict(rpm) ==
    LET kept == {"name", "epoch", "version", "release", "arch"}
                   \cup {key \in {"checksum", "checksumtype"} : rpm[key] # {}}
    IN [key \in kept |->
          IF key \in {"checksum", "checksumtype"} THEN Some(rpm[key]) ELSE rpm[key]]

\* for package in collection.get('packages', []): ... ret.append(unit_key)
RECURSIVE PackagesLoop(_, _)
PackagesLoop(ret, packages) ==
    IF packages = <<>> THEN ret
    ELSE PackagesLoop(
            Append(ret, SearchDict(RPM_init(Head(packages), PackageChecksum(Head(packages))))),
            Tail(packages))

\* for collection in self.pkglist
RECURSIVE CollectionsLoop(_, _)
CollectionsLoop(ret, pkglist) ==
    IF pkglist = <<>> THEN ret
    ELSE CollectionsLoop(
            PackagesLoop(ret, IF Head(pkglist).packages = {} THEN <<>>
                              ELSE Some(Head(pkglist).packages)),
            Tail(pkglist))

\* Errata.rpm_search_dicts
rpm_search_dicts(self) == CollectionsLoop(<<>>, self.pkglist)

ErrataPackage(name, sum, sums, type) ==
    [name |-> name, epoch |-> "0", version |-> "1.0", release |-> "1", arch |-> "noarch",
     sum |-> sum, sums |-> sums, type |-> type]

ErrataPackages ==
    {ErrataPackage("a", {}, {}, {}),
     ErrataPackage("a", {<<"SHA256", "c1">>}, {}, {}),
     ErrataPackage("b", {<<"sha", "c3">>}, {}, {}),
     ErrataPackage("a", {<<"md5">>}, {"c2"}, {"SHA"}),
     ErrataPackage("a", {<<>>}, {"c2"}, {"md5"}),
     ErrataPackage("a", {}, {"c2"}, {}),
     ErrataPackage("a", {<<"md5", "c1">>}, {"c2"}, {"sha256"})}

ErrataCollections ==
    {[packages |-> {}]} \cup
    {[packages |-> {ps}] : ps \in UNION {[1..n -> ErrataPackages] : n \in 0..MaxPackages}}

InitErrata ==
    /\ call_args \in [pkglist : UNION {[1..n -> ErrataCollections] : n \in 0..2}]
    /\ call_result = {}
    /\ ParkEnc /\ ParkPkg /\ ParkSave /\ ParkIso /\ ParkVal /\ ParkCon

\* erratum.rpm_search_dicts
ReadRpmSearchDicts ==
    /\ call_result = {}
    /\ call_result' = {rpm_search_dicts(call_args)}
    /\ UNCHANGED <<call_args, encVars, pkgVars, saveVars, isoVars, valVars, conVars>>

NextErrata == ReadRpmSearchDicts

SpecErrata == InitErrata /\ [][NextErrata]_vars

\* the packages of all collections, collection after collection
RECURSIVE AllPackages(_)
AllPackages(pkglist) ==
    IF pkglist = <<>> THEN <<>>
    ELSE (IF Head(pkglist).packages = {} THEN <<>> ELSE Some(Head(pkglist).packages))
            \o AllPackages(Tail(pkglist))

\* the checksum type names as the unit key is to hold them
SanitizedType(t) ==
    CASE t \in {"SHA256", "sha256"} -> "sha256"
      [] t \in {"SHA", "sha"} -> "sha1"
      [] t = "md5" -> "md5"

HasTwoElementSum(package) == \E pair \in package.sum : Len(pair) = 2

\* C27: rpm_search_dicts returns one unit key for each package of each
\* collection, in pkglist order, with the package's name, epoch, version,
\* release and arch; a two-element 'sum' gives checksumtype (sanitized) and
\* checksum, else 'type' (sanitized) and 'sums' give them when both are
\* there, and else the unit key has neither of the two keys.
C27_SearchDictPerPackage ==
    \A ret \in call_result :
        LET packages == AllPackages(call_args.pkglist)
        IN /\ Len(ret) = Len(packages)
           /\ \A k \in 1..Len(ret) :
                 LET package == packages[k]
                     unit_key == ret[k]
                 IN /\ \A f \in {"name", "epoch", "version", "release", "arch"} :
                          f \in DOMAIN unit_key /\ unit_key[f] = package[f]
                    /\ IF HasTwoElementSum(package)
                       THEN /\ DOMAIN unit_key = {"name", "epoch", "version", "release",
                                                  "arch", "checksumtype", "checksum"}
                            /\ \A pair \in package.sum :
                                  /\ unit_key["checksumtype"] = SanitizedType(pair[1])
                                  /\ unit_key["checksum"] = pair[2]
                       ELSE IF package.sums # {} /\ package.type # {}
                       THEN /\ DOMAIN unit_key = {"name", "epoch", "version", "release",
                                                  "arch", "checksumtype", "checksum"}
                            /\ \A t \in package.type :
                                  unit_key["checksumtype"] = SanitizedType(t)
                            /\ \A c \in package.sums : unit_key["checksum"] = c
                       ELSE DOMAIN unit_key = {"name", "epoch", "version", "release", "arch"}

C27_Witness ==
    /\ Len(call_args.pkglist) = 2
    /\ call_args.pkglist[1].packages =
          {<<ErrataPackage("b", {<<"sha", "c3">>}, {}, {}),
             ErrataPackage("a", {}, {"c2"}, {})>>}
    /\ call_args.pkglist[2].packages = {<<ErrataPackage("a", {<<"md5">>}, {"c2"}, {"SHA"})>>}
    /\ \E ret \in call_result :
          /\ Len(ret) = 3
          /\ ret[1]["name"] = "b" /\ ret[1]["checksumtype"] = "sha1" /\ ret[1]["checksum"] = "c3"
          /\ "checksum" \notin DOMAIN ret[2] /\ "checksumtype" \notin DOMAIN ret[2]
          /\ ret[3]["checksumtype"] = "sha1" /\ ret[3]["checksum"] = "c2"

-----------------------------------------------------------------------------
(* SpecIdDict: UnitMixin.to_id_dict.  The platform's to_id_dict gives the  *)
(* type_id and the unit key, a function from field names; the class's      *)
(* SERIALIZER is {} for None, or {remapped_fields}, a function from the    *)
(* model's names of fields to their names in the API.  The names in the    *)
(* API are not names of model fields, and no two fields share one.         *)

UnitKeyNames == {"errata_id", "errata_from", "name"}
RemappedNames == {"errata_id", "errata_from"}
ApiNames == {"id", "from"}

\* a step that leaves the new name in the unit key
RemapField_keepNew(unit_key, new, old) ==
    IF new \in DOMAIN unit_key
    THEN [k \in DOMAIN unit_key \cup {old} |->
             IF k = old THEN unit_key[new] ELSE unit_key[k]]
    ELSE unit_key

\* if new in unit_key: unit_key[old] = unit_key[new]; del unit_key[new]
RemapField(unit_key, new, old) ==
    IF new \in DOMAIN unit_key
    THEN [k \in (DOMAIN unit_key \cup {old}) \ {new} |->
             IF k = old THEN unit_key[new] ELSE unit_key[k]]
    ELSE unit_key

\* for new, old in remapped_fields.items(), the items taken in this order
RECURSIVE RemapLoop(_, _, _)
RemapLoop(unit_key, remapped_fields, order) ==
    IF order = <<>> THEN unit_key
    ELSE RemapLoop(RemapField(unit_key, Head(order), remapped_fields[Head(order)]),
                   remapped_fields, Tail(order))

\* UnitMixin.to_id_dict, ret being what the platform method returned
to_id_dict(ret, SERIALIZER, order) ==
    IF SERIALIZER = {} THEN ret
    ELSE [ret EXCEPT !.unit_key = RemapLoop(ret.unit_key, Some(SERIALIZER), order)]

\* the orders in which the items of a dictionary may come
ItemOrders(d) ==
    {o \in [1..Cardinality(DOMAIN d) -> DOMAIN d] :
        \A i, j \in DOMAIN o : o[i] = o[j] => i = j}

RemappedFields ==
    {f \in UNION {[ns -> ApiNames] : ns \in SUBSET RemappedNames} :
        \A a, b \in DOMAIN f : f[a] = f[b] => a = b}

InitIdDict ==
    /\ call_args \in
          [type_id : {"erratum", "rpm"},
           unit_key : UNION {[ns -> FieldValues] : ns \in SUBSET UnitKeyNames},
           SERIALIZER : {{}} \cup {{f} : f \in RemappedFields}]
    /\ call_result = {}
    /\ ParkEnc /\ ParkPkg /\ ParkSave /\ ParkIso /\ ParkVal /\ ParkCon

\* unit.to_id_dict()
ToIdDict ==
    /\ call_result = {}
    /\ \E order \in IF call_args.SERIALIZER = {} THEN {<<>>}
                    ELSE ItemOrders(Some(call_args.SERIALIZER)) :
          call_result' = {to_id_dict([type_id |-> call_args.type_id,
                                      unit_key |-> call_args.unit_key],
                                     call_args.SERIALIZER, order)}
    /\ UNCHANGED <<call_args, encVars, pkgVars, saveVars, isoVars, valVars, conVars>>

NextIdDict == ToIdDict

SpecIdDict == InitIdDict /\ [][NextIdDict]_vars

\* C28: with a SERIALIZER, every key of the platform unit key that is a
\* remapped name appears under its old name with the same value and no
\* longer under the new one, every other key keeps its value, nothing else
\* is in the unit key, and type_id is as the platform gave it; without a
\* SERIALIZER the platform's result comes back as it is.
C28_IdDictRemapped ==
    \A ret \in call_result :
        /\ ret.type_id = call_args.type_id
        /\ call_args.SERIALIZER = {} => ret.unit_key = call_args.unit_key
        /\ \A remapped_fields \in call_args.SERIALIZER :
              /\ \A k \in DOMAIN call_args.unit_key :
                    IF k \in DOMAIN remapped_fields
                    THEN /\ remapped_fields[k] \in DOMAIN ret.unit_key
                         /\ ret.unit_key[remapped_fields[k]] = call_args.unit_key[k]
                         /\ k \notin DOMAIN ret.unit_key
                    ELSE /\ k \in DOMAIN ret.unit_key
                         /\ ret.unit_key[k] = call_args.unit_key[k]
              /\ Cardinality(DOMAIN ret.unit_key) = Cardinality(DOMAIN call_args.unit_key)

C28_Witness ==
    /\ DOMAIN call_args.unit_key = {"errata_id", "name"}
    /\ call_args.unit_key["errata_id"] = "x"
    /\ call_args.unit_key["name"] = "y"
    /\ \E remapped_fields \in call_args.SERIALIZER :
          /\ DOMAIN remapped_fields = {"errata_id", "errata_from"}
          /\ remapped_fields["errata_id"] = "id"
    /\ \E ret \in call_result :
          /\ DOMAIN ret.unit_key = {"id", "name"}
          /\ ret.unit_key["id"] = "x"
          /\ ret.unit_key["name"] = "y"

=============================================================================
